---- MODULE Spec2Model ----
\* Model of the Hori/Namco Flightstick USB driver (src/hori.c): the interrupt
\* stream, the two-phase control poll chain and the lifecycle entry points
\* (open, close, suspend, resume, pre_reset/post_reset), together with the part
\* of the Linux USB core they call (usb_submit_urb, usb_kill_urb, giveback).
EXTENDS Integers, Sequences, FiniteSets, TLC

VARIABLES hori, pc, ev, chain, hist

vars == <<hori, pc, ev, chain, hist>>

\* ------------------------------------------------------------------ constants

HORI_POLL_VR0 == 0
HORI_POLL_VR1 == 1

\* errno values used by the driver (statuses and return values are negative)
EPERM == 1
ENOENT == 2
EIO == 5
ENOMEM == 12
EBUSY == 16
EPIPE == 32
ETIME == 62
EPROTO == 71
ECONNRESET == 104
ESHUTDOWN == 108

\* the documented size of the interrupt report
REPORT_LEN == 8

\* a button byte of the interrupt report below 0xc0 is a pressed button
BTN_THRESHOLD == 192

\* completion statuses the host controller can give back; -EPROTO stands for
\* every status the handlers' switch sends to its default branch
Statuses == {0, -ETIME, -EPIPE, -ECONNRESET, -ENOENT, -ESHUTDOWN, -EPROTO}

\* payload lengths of a completed interrupt read (the report size and a short one)
Lengths == {REPORT_LEN - 1, REPORT_LEN}

GFP_KERNEL == "GFP_KERNEL"
GFP_ATOMIC == "GFP_ATOMIC"

Ops == {"open", "close", "suspend", "resume", "reset"}

\* ------------------------------------------------------------------ USB core

\* A fresh URB as usb_alloc_urb leaves it. linked counts the submissions
\* queued at the host controller (the transfer is in flight), unlinked is the
\* pending cancellation, cb says a giveback handed the URB to its completion
\* handler which has not returned yet, given is the status and length that
\* giveback hands to the handler. status and actual_length are read by the
\* completion handler alone, so they hold a value only while it runs.
NewUrb(handler) ==
    [linked |-> 0, unlinked |-> FALSE, reject |-> 0, use_count |-> 0,
     cb |-> FALSE, given |-> <<0, 0>>, status |-> 0, actual_length |-> 0,
     complete |-> handler, transfer_buffer |-> "none", submitted |-> HORI_POLL_VR0]

\* usb_submit_urb without the "submitted while active" test
usb_submit_urb_NoBusy(u, fail) ==
    IF u.reject > 0 THEN [u |-> u, err |-> -EPERM]
    ELSE IF fail THEN [u |-> u, err |-> -ENOMEM]
    ELSE [u |-> [u EXCEPT !.linked = @ + 1, !.use_count = @ + 1,
                          !.unlinked = FALSE],
          err |-> 0]

\* usb_submit_urb: -EBUSY for a URB that is still queued, -EPERM while a
\* usb_kill_urb is rejecting it, otherwise the host controller accepts it or
\* fails (fail: any other error, -ENOMEM standing for all of them).
usb_submit_urb(u, fail) ==
    IF u.linked > 0 THEN [u |-> u, err |-> -EBUSY]
    ELSE IF u.reject > 0 THEN [u |-> u, err |-> -EPERM]
    ELSE IF fail THEN [u |-> u, err |-> -ENOMEM]
    ELSE [u |-> [u EXCEPT !.linked = @ + 1, !.use_count = @ + 1,
                          !.unlinked = FALSE],
          err |-> 0]

\* usb_kill_urb, first half: reject further submissions and unlink the URB if
\* it is queued (it will be given back with -ENOENT)
usb_kill_urb_begin(u) ==
    [u EXCEPT !.reject = @ + 1, !.unlinked = (u.linked > 0)]

\* a cancellation that does not wait (usb_unlink_urb in place of usb_kill_urb)
usb_kill_urb_done_NoWait(u) == TRUE

\* usb_kill_urb, second half: it sleeps until use_count is zero
usb_kill_urb_done(u) == u.use_count = 0

usb_kill_urb_end(u) == [u EXCEPT !.reject = @ - 1]

\* the host controller gives the URB back: it leaves the queue and its
\* completion handler is about to run; a cancelled URB completes with -ENOENT
usb_hcd_giveback_urb(u, st, len) ==
    [u EXCEPT !.linked = @ - 1, !.unlinked = FALSE, !.cb = TRUE,
              !.given = <<IF u.unlinked THEN -ENOENT ELSE st,
                          IF u.unlinked \/ st # 0 THEN 0 ELSE len>>]

\* the giveback sets urb->status and calls urb->complete(urb)
usb_complete_call(u) ==
    [u EXCEPT !.status = u.given[1], !.actual_length = u.given[2],
              !.given = <<0, 0>>]

\* the completion handler has returned
usb_complete_return(u) ==
    [u EXCEPT !.cb = FALSE, !.use_count = @ - 1, !.status = 0, !.actual_length = 0]

Quiescent(u) == u.linked = 0 /\ ~u.cb

\* ------------------------------------------------------------------ driver

\* The effects of one handler: the session after it and what it did on the way.
\*   issued: the control requests it issued      cres: what their submission returned
\*   isub:   what submitting the interrupt read returned
\*   gfp:    the allocation flags of its submissions
\*   pub:    the frames it published              flush: the flushes it issued
\*   ret:    what it returned
\*   events: the input events of those frames, in the order of the calls
Ctx(h) ==
    [h |-> h, issued |-> <<>>, cres |-> <<>>, isub |-> <<>>, gfp |-> {},
     pub |-> <<>>, events |-> <<>>, flush |-> 0, ret |-> <<>>]

hori_poll_vr0(c, fail) ==
    LET filled == [c.h.urb_ctl EXCEPT !.complete = "hori_poll_vr0_complete",
                                      !.transfer_buffer = "vr0"]
        r == usb_submit_urb(filled, fail)
        u == IF r.err = 0 THEN [r.u EXCEPT !.submitted = HORI_POLL_VR0] ELSE r.u
    IN [c EXCEPT !.h.bRequest = HORI_POLL_VR0,
                 !.h.urb_ctl = u,
                 !.issued = Append(@, HORI_POLL_VR0),
                 !.cres = Append(@, r.err),
                 !.gfp = @ \cup {<<"ctl", GFP_KERNEL>>}]

hori_poll_vr1(c, fail) ==
    LET filled == [c.h.urb_ctl EXCEPT !.complete = "hori_poll_vr1_complete",
                                      !.transfer_buffer = "vr1"]
        r == usb_submit_urb(filled, fail)
        u == IF r.err = 0 THEN [r.u EXCEPT !.submitted = HORI_POLL_VR1] ELSE r.u
    IN [c EXCEPT !.h.bRequest = HORI_POLL_VR1,
                 !.h.urb_ctl = u,
                 !.issued = Append(@, HORI_POLL_VR1),
                 !.cres = Append(@, r.err),
                 !.gfp = @ \cup {<<"ctl", GFP_KERNEL>>}]

\* input_report_key, input_report_abs and input_sync
InputKey(code, value) == <<"EV_KEY", code, value>>

InputAbs(code, value) == <<"EV_ABS", code, value>>

InputSync == <<"EV_SYN">>

\* bit i of a byte; the bit-fields of the two report structures are laid out
\* from the least significant bit of each byte, in declaration order
Bit(b, i) == (b \div (2 ^ i)) % 2

\* struct hori_raw_input_vr_00: the byte and bit of each field
Vr0Field ==
    [fire_c |-> <<1, 0>>, button_d |-> <<1, 1>>, hat |-> <<1, 2>>,
     button_st |-> <<1, 3>>, dpad1_top |-> <<1, 4>>, dpad1_right |-> <<1, 5>>,
     dpad1_bottom |-> <<1, 6>>, dpad1_left |-> <<1, 7>>,
     launch |-> <<2, 5>>, trigger |-> <<2, 6>>]

\* struct hori_raw_input_vr_01: the byte and bit of each one-bit field
Vr1Field ==
    [dpad3_right |-> <<1, 4>>, dpad3_middle |-> <<1, 5>>, dpad3_left |-> <<1, 6>>,
     button_sw1 |-> <<2, 3>>, dpad2_top |-> <<2, 4>>, dpad2_right |-> <<2, 5>>,
     dpad2_bottom |-> <<2, 6>>, dpad2_left |-> <<2, 7>>]

\* hori->vr0.<f> and hori->vr1.<f>
Vr0(h, f) == Bit(h.vr0[Vr0Field[f][1]], Vr0Field[f][2])

Vr1(h, f) == Bit(h.vr1[Vr1Field[f][1]], Vr1Field[f][2])

\* the two-bit field mode_select of struct hori_raw_input_vr_01
Vr1ModeSelect(h) == h.vr1[2] % 4

\* the C operator !
Not(x) == IF x = 0 THEN 1 ELSE 0

\* a C comparison as an int
Lt(a, b) == IF a < b THEN 1 ELSE 0

\* hori_vr0_report with the trigger reported without the negation
hori_vr0_report_ActiveHigh(h) ==
    << InputKey("BTN_TRIGGER_HAPPY1", Not(Vr0(h, "fire_c"))),
       InputKey("BTN_TRIGGER_HAPPY2", Not(Vr0(h, "button_d"))),
       InputKey("BTN_TRIGGER_HAPPY3", Not(Vr0(h, "hat"))),
       InputKey("BTN_TRIGGER_HAPPY4", Not(Vr0(h, "button_st"))),
       InputKey("BTN_TRIGGER_HAPPY5", Not(Vr0(h, "dpad1_top"))),
       InputKey("BTN_TRIGGER_HAPPY6", Not(Vr0(h, "dpad1_right"))),
       InputKey("BTN_TRIGGER_HAPPY7", Not(Vr0(h, "dpad1_bottom"))),
       InputKey("BTN_TRIGGER_HAPPY8", Not(Vr0(h, "dpad1_left"))),
       InputKey("BTN_THUMB", Not(Vr0(h, "launch"))),
       InputKey("BTN_TRIGGER", Vr0(h, "trigger")) >>

\* the input_report_key calls of hori_poll_vr0_complete
hori_vr0_report(h) ==
    << InputKey("BTN_TRIGGER_HAPPY1", Not(Vr0(h, "fire_c"))),
       InputKey("BTN_TRIGGER_HAPPY2", Not(Vr0(h, "button_d"))),
       InputKey("BTN_TRIGGER_HAPPY3", Not(Vr0(h, "hat"))),
       InputKey("BTN_TRIGGER_HAPPY4", Not(Vr0(h, "button_st"))),
       InputKey("BTN_TRIGGER_HAPPY5", Not(Vr0(h, "dpad1_top"))),
       InputKey("BTN_TRIGGER_HAPPY6", Not(Vr0(h, "dpad1_right"))),
       InputKey("BTN_TRIGGER_HAPPY7", Not(Vr0(h, "dpad1_bottom"))),
       InputKey("BTN_TRIGGER_HAPPY8", Not(Vr0(h, "dpad1_left"))),
       InputKey("BTN_THUMB", Not(Vr0(h, "launch"))),
       InputKey("BTN_TRIGGER", Not(Vr0(h, "trigger"))) >>

\* hori_vr1_report with the commented-out mode_select block compiled in
hori_vr1_report_ModeSelect(h) ==
    << InputKey("BTN_THUMB2", Not(Vr1(h, "dpad3_right"))),
       InputKey("BTN_C", Not(Vr1(h, "dpad3_middle"))),
       InputKey("BTN_X", Not(Vr1(h, "dpad3_left"))),
       InputKey("BTN_Y", Not(Vr1(h, "button_sw1"))),
       InputKey("BTN_BASE", IF Vr1ModeSelect(h) = 1 THEN 1 ELSE 0),
       InputKey("BTN_GEAR_UP", IF Vr1ModeSelect(h) = 2 THEN 1 ELSE 0),
       InputKey("BTN_GEAR_DOWN", IF Vr1ModeSelect(h) = 3 THEN 1 ELSE 0),
       InputAbs("ABS_Z", IF Not(Vr1(h, "dpad2_left")) # 0 THEN 0
                         ELSE IF Not(Vr1(h, "dpad2_right")) # 0 THEN 2 ELSE 1),
       InputAbs("ABS_RZ", IF Not(Vr1(h, "dpad2_top")) # 0 THEN 0
                          ELSE IF Not(Vr1(h, "dpad2_bottom")) # 0 THEN 2 ELSE 1) >>

\* hori_vr1_report with the high edge of each pad axis tested first
hori_vr1_report_HighFirst(h) ==
    << InputKey("BTN_THUMB2", Not(Vr1(h, "dpad3_right"))),
       InputKey("BTN_C", Not(Vr1(h, "dpad3_middle"))),
       InputKey("BTN_X", Not(Vr1(h, "dpad3_left"))),
       InputKey("BTN_Y", Not(Vr1(h, "button_sw1"))),
       InputAbs("ABS_Z", IF Not(Vr1(h, "dpad2_right")) # 0 THEN 2
                         ELSE IF Not(Vr1(h, "dpad2_left")) # 0 THEN 0 ELSE 1),
       InputAbs("ABS_RZ", IF Not(Vr1(h, "dpad2_bottom")) # 0 THEN 2
                          ELSE IF Not(Vr1(h, "dpad2_top")) # 0 THEN 0 ELSE 1) >>

\* the input_report_key and input_report_abs calls of hori_poll_vr1_complete
hori_vr1_report(h) ==
    << InputKey("BTN_THUMB2", Not(Vr1(h, "dpad3_right"))),
       InputKey("BTN_C", Not(Vr1(h, "dpad3_middle"))),
       InputKey("BTN_X", Not(Vr1(h, "dpad3_left"))),
       InputKey("BTN_Y", Not(Vr1(h, "button_sw1"))),
       InputAbs("ABS_Z", IF Not(Vr1(h, "dpad2_left")) # 0 THEN 0
                         ELSE IF Not(Vr1(h, "dpad2_right")) # 0 THEN 2 ELSE 1),
       InputAbs("ABS_RZ", IF Not(Vr1(h, "dpad2_top")) # 0 THEN 0
                          ELSE IF Not(Vr1(h, "dpad2_bottom")) # 0 THEN 2 ELSE 1) >>

\* hori_irq_report with the buttons compared by <= 0xc0
hori_irq_report_Inclusive(h) ==
    << InputAbs("ABS_X", h.data[1]), InputAbs("ABS_Y", h.data[2]),
       InputAbs("ABS_RUDDER", h.data[3]), InputAbs("ABS_RX", h.data[4]),
       InputAbs("ABS_RY", h.data[5]), InputAbs("ABS_THROTTLE", h.data[6]),
       InputKey("BTN_A", Lt(h.data[7], BTN_THRESHOLD + 1)),
       InputKey("BTN_B", Lt(h.data[8], BTN_THRESHOLD + 1)) >>

\* the input_report_abs and input_report_key calls of hori_usb_irq
hori_irq_report(h) ==
    << InputAbs("ABS_X", h.data[1]),
       InputAbs("ABS_Y", h.data[2]),
       InputAbs("ABS_RUDDER", h.data[3]),
       InputAbs("ABS_RX", h.data[4]),
       InputAbs("ABS_RY", h.data[5]),
       InputAbs("ABS_THROTTLE", h.data[6]),
       InputKey("BTN_A", Lt(h.data[7], BTN_THRESHOLD)),
       InputKey("BTN_B", Lt(h.data[8], BTN_THRESHOLD)) >>

\* the input_report_* calls of one handler followed by its input_sync
Publish(c, frame) ==
    LET report == IF frame = "vr0" THEN hori_vr0_report(c.h)
                  ELSE IF frame = "vr1" THEN hori_vr1_report(c.h)
                  ELSE hori_irq_report(c.h)
    IN [c EXCEPT !.pub = Append(@, frame),
                 !.events = @ \o report \o <<InputSync>>,
                 !.flush = @ + 1]

\* hori_poll_vr0_complete returning on a stall instead of going to exit2
hori_poll_vr0_complete_StallHalts(c, fail) ==
    LET st == c.h.urb_ctl.status IN
    IF st = 0 THEN hori_poll_vr1(Publish(c, "vr0"), fail)
    ELSE IF st \in {-ETIME, -EPIPE, -ECONNRESET, -ENOENT, -ESHUTDOWN} THEN c
    ELSE hori_poll_vr1(c, fail)

hori_poll_vr0_complete(c, fail) ==
    LET st == c.h.urb_ctl.status IN
    IF st = 0 THEN hori_poll_vr1(Publish(c, "vr0"), fail)
    ELSE IF st = -ETIME THEN c
    ELSE IF st = -EPIPE THEN hori_poll_vr1(c, fail)
    ELSE IF st \in {-ECONNRESET, -ENOENT, -ESHUTDOWN} THEN c
    ELSE hori_poll_vr1(c, fail)

hori_poll_vr1_complete(c, fail) ==
    LET st == c.h.urb_ctl.status IN
    IF st = 0 THEN hori_poll_vr0(Publish(c, "vr1"), fail)
    ELSE IF st = -ETIME THEN c
    ELSE IF st = -EPIPE THEN hori_poll_vr0(c, fail)
    ELSE IF st \in {-ECONNRESET, -ENOENT, -ESHUTDOWN} THEN c
    ELSE hori_poll_vr0(c, fail)

\* the resubmission at the exit label of hori_usb_irq
IrqResubmit(c, fail) ==
    LET r == usb_submit_urb(c.h.urb, fail)
    IN [c EXCEPT !.h.urb = r.u, !.isub = Append(@, r.err),
                 !.gfp = @ \cup {<<"irq", GFP_ATOMIC>>}]

\* hori_usb_irq returning on a length mismatch instead of falling to exit
hori_usb_irq_ShortReturns(c, fail) ==
    LET st == c.h.urb.status IN
    IF st = 0 THEN
        IF c.h.urb.actual_length = REPORT_LEN
        THEN IrqResubmit(Publish(c, "irq"), fail)
        ELSE c
    ELSE IF st = -ETIME THEN c
    ELSE IF st \in {-ECONNRESET, -ENOENT, -ESHUTDOWN, -EPIPE} THEN c
    ELSE IrqResubmit(c, fail)

\* hori_usb_irq with -EPIPE taken out of the terminated statuses
hori_usb_irq_StallResubmits(c, fail) ==
    LET st == c.h.urb.status IN
    IF st = 0 THEN
        IF c.h.urb.actual_length = REPORT_LEN
        THEN IrqResubmit(Publish(c, "irq"), fail)
        ELSE IrqResubmit(c, fail)
    ELSE IF st = -ETIME THEN c
    ELSE IF st \in {-ECONNRESET, -ENOENT, -ESHUTDOWN} THEN c
    ELSE IrqResubmit(c, fail)

hori_usb_irq(c, fail) ==
    LET st == c.h.urb.status IN
    IF st = 0 THEN
        IF c.h.urb.actual_length = REPORT_LEN
        THEN IrqResubmit(Publish(c, "irq"), fail)
        ELSE IrqResubmit(c, fail)
    ELSE IF st = -ETIME THEN c
    ELSE IF st \in {-ECONNRESET, -ENOENT, -ESHUTDOWN, -EPIPE} THEN c
    ELSE IrqResubmit(c, fail)

\* hori_open giving up when the poll chain cannot be started
hori_open_ChainFatal(c, failI, failC) ==
    LET r == usb_submit_urb(c.h.urb, failI)
        c1 == [c EXCEPT !.h.urb = r.u, !.isub = Append(@, r.err),
                        !.gfp = @ \cup {<<"irq", GFP_KERNEL>>}]
    IN IF r.err # 0
       THEN [c1 EXCEPT !.ret = <<-EIO>>, !.h.pm_mutex = "free"]
       ELSE LET c2 == hori_poll_vr0([c1 EXCEPT !.h.is_open = TRUE], failC)
            IN [c2 EXCEPT !.ret = <<IF c2.cres[1] # 0 THEN -EIO ELSE 0>>,
                          !.h.pm_mutex = "free"]

\* the body of hori_open, entered with pm_mutex held (guard(mutex) releases it
\* on every return)
hori_open(c, failI, failC) ==
    LET r == usb_submit_urb(c.h.urb, failI)
        c1 == [c EXCEPT !.h.urb = r.u, !.isub = Append(@, r.err),
                        !.gfp = @ \cup {<<"irq", GFP_KERNEL>>}]
    IN IF r.err # 0
       THEN [c1 EXCEPT !.ret = <<-EIO>>, !.h.pm_mutex = "free"]
       ELSE LET c2 == hori_poll_vr0([c1 EXCEPT !.h.is_open = TRUE], failC)
            IN [c2 EXCEPT !.ret = <<0>>, !.h.pm_mutex = "free"]

\* the end of hori_close, after both usb_kill_urb calls
hori_close(c) ==
    [c EXCEPT !.h.is_open = FALSE, !.h.pm_mutex = "free", !.ret = <<0>>]

\* hori_suspend ending like hori_close, with is_open cleared
hori_suspend_ClearsOpen(c) ==
    [c EXCEPT !.h.is_open = FALSE, !.h.pm_mutex = "free", !.ret = <<0>>]

\* the end of hori_suspend
hori_suspend(c) == [c EXCEPT !.h.pm_mutex = "free", !.ret = <<0>>]

\* hori_resume with the commented-out hori_poll_vr1 call in place of hori_poll_vr0
hori_resume_StartsVr1(c, failI, failC) ==
    LET r == usb_submit_urb(c.h.urb, failI)
        c1 == [c EXCEPT !.h.urb = r.u, !.isub = Append(@, r.err),
                        !.gfp = @ \cup {<<"irq", GFP_KERNEL>>}]
    IN IF c.h.is_open /\ r.err < 0
       THEN [c1 EXCEPT !.ret = <<-EIO>>, !.h.pm_mutex = "free"]
       ELSE IF c.h.is_open
       THEN [hori_poll_vr1(c1, failC) EXCEPT !.ret = <<0>>, !.h.pm_mutex = "free"]
       ELSE [c EXCEPT !.ret = <<0>>, !.h.pm_mutex = "free"]

\* hori_resume without the tests of is_open
hori_resume_NoOpenCheck(c, failI, failC) ==
    LET r == usb_submit_urb(c.h.urb, failI)
        c1 == [c EXCEPT !.h.urb = r.u, !.isub = Append(@, r.err),
                        !.gfp = @ \cup {<<"irq", GFP_KERNEL>>}]
    IN IF r.err < 0
       THEN [c1 EXCEPT !.ret = <<-EIO>>, !.h.pm_mutex = "free"]
       ELSE [hori_poll_vr0(c1, failC) EXCEPT !.ret = <<0>>, !.h.pm_mutex = "free"]

\* the body of hori_resume (and of hori_reset_resume, which calls it)
hori_resume(c, failI, failC) ==
    LET r == usb_submit_urb(c.h.urb, failI)
        c1 == [c EXCEPT !.h.urb = r.u, !.isub = Append(@, r.err),
                        !.gfp = @ \cup {<<"irq", GFP_KERNEL>>}]
    IN IF c.h.is_open /\ r.err < 0
       THEN [c1 EXCEPT !.ret = <<-EIO>>, !.h.pm_mutex = "free"]
       ELSE IF c.h.is_open
       THEN [hori_poll_vr0(c1, failC) EXCEPT !.ret = <<0>>, !.h.pm_mutex = "free"]
       ELSE [c EXCEPT !.ret = <<0>>, !.h.pm_mutex = "free"]

\* hori_post_reset, run with the pm_mutex that hori_pre_reset took
hori_post_reset(c, failI, failC) ==
    LET r == usb_submit_urb(c.h.urb, failI)
        c1 == [c EXCEPT !.h.urb = r.u, !.isub = Append(@, r.err),
                        !.gfp = @ \cup {<<"irq", GFP_KERNEL>>}]
    IN IF c.h.is_open
       THEN [hori_poll_vr0(c1, failC) EXCEPT
                !.ret = <<IF r.err < 0 THEN -EIO ELSE 0>>, !.h.pm_mutex = "free"]
       ELSE [c EXCEPT !.ret = <<0>>, !.h.pm_mutex = "free"]

\* ------------------------------------------------------------------ state

\* an entry point that does not take the mutex
mutex_lock_ready_NoLock(h) == TRUE

\* mutex_lock(&hori->pm_mutex) and guard(mutex)(&hori->pm_mutex) return only
\* when no one holds the mutex
mutex_lock_ready(h) == h.pm_mutex = "free"

\* what the last step did: the handler that ran (op), the completion it
\* handled (st, len), its effects (the fields of Ctx) and the state it started
\* from (req: the request code last written, was_open, after_suspend: the
\* lifecycle operation that had returned last was suspend, halted: the chain
\* had halted)
Ev(op, c, st, len) ==
    [op |-> op, st |-> st, len |-> len,
     issued |-> c.issued, cres |-> c.cres, isub |-> c.isub, gfp |-> c.gfp,
     pub |-> c.pub, events |-> c.events, flush |-> c.flush, ret |-> c.ret,
     req |-> hori.bRequest, was_open |-> hori.is_open, after_suspend |-> hist.suspended,
     halted |-> chain.clean /\ chain.halted]

\* the control poll chain since the last lifecycle start: clean when that
\* start found the control transfer quiescent, halted once a completion
\* handler returned without issuing a request
ChainStart == [clean |-> Quiescent(hori.urb_ctl), halted |-> FALSE]

ChainAfter(c) == IF c.issued # <<>> THEN ChainStart ELSE chain

\* The history the claims speak of: suspended says the lifecycle operation
\* that returned last was suspend, torn holds from the return of close to the start of the next
\* open, raced says a completion handler had a submission refused by the
\* usb_kill_urb of the lifecycle operation now running.
Returned(op) ==
    [hist EXCEPT !.suspended = (op = "suspend"),
                 !.torn = (op = "close") \/ (@ /\ op # "open")]

Raced(c) ==
    IF -EPERM \in {c.isub[i] : i \in DOMAIN c.isub} \cup {c.cres[i] : i \in DOMAIN c.cres}
    THEN [hist EXCEPT !.raced = TRUE] ELSE hist

\* the session as hori_probe leaves it
Probed ==
    [is_open |-> FALSE, pm_mutex |-> "free",
     bRequest |-> HORI_POLL_VR0,
     vr0 |-> <<0, 0>>, vr1 |-> <<0, 0>>,
     data |-> [i \in 1..REPORT_LEN |-> 0],
     urb |-> NewUrb("hori_usb_irq"),
     urb_ctl |-> NewUrb("none")]

ProbedEv ==
    [op |-> "hori_probe", st |-> 0, len |-> 0,
     issued |-> <<>>, cres |-> <<>>, isub |-> <<>>, gfp |-> {},
     pub |-> <<>>, events |-> <<>>, flush |-> 0, ret |-> <<0>>,
     req |-> HORI_POLL_VR0, was_open |-> FALSE, after_suspend |-> FALSE,
     halted |-> FALSE]

Init ==
    /\ hori = Probed
    /\ pc = [o \in Ops |-> "idle"]
    /\ ev = ProbedEv
    /\ chain = [clean |-> FALSE, halted |-> FALSE]
    /\ hist = [suspended |-> FALSE, torn |-> FALSE, raced |-> FALSE]

\* a step of a lifecycle operation that runs no handler body
Quiet(op) ==
    /\ ev' = Ev(op, Ctx(hori), 0, 0)
    /\ UNCHANGED <<chain, hist>>

\* ------------------------------------------------------------------ completions

\* the interrupt read completes
IrqGiveback ==
    /\ hori.urb.linked > 0
    /\ ~hori.urb.cb
    /\ \E st \in Statuses, len \in Lengths :
          hori' = [hori EXCEPT !.urb = usb_hcd_giveback_urb(@, st, len)]
    /\ pc' = pc
    /\ Quiet("irq_giveback")

\* hori_usb_irq runs and returns
IrqCallback ==
    /\ hori.urb.cb
    /\ \E fail \in BOOLEAN :
          LET h0 == [hori EXCEPT !.urb = usb_complete_call(@)]
              c == hori_usb_irq(Ctx(h0), fail)
          IN
          /\ hori' = [c.h EXCEPT !.urb = usb_complete_return(@)]
          /\ ev' = Ev("hori_usb_irq", c, h0.urb.status, h0.urb.actual_length)
          /\ hist' = Raced(c)
    /\ UNCHANGED <<pc, chain>>

\* the control transfer completes
CtlGiveback ==
    /\ hori.urb_ctl.linked > 0
    /\ ~hori.urb_ctl.cb
    /\ \E st \in Statuses :
          hori' = [hori EXCEPT !.urb_ctl = usb_hcd_giveback_urb(@, st, 2)]
    /\ pc' = pc
    /\ Quiet("ctl_giveback")

\* the completion handler of the control URB runs and returns
CtlCallback ==
    /\ hori.urb_ctl.cb
    /\ \E fail \in BOOLEAN :
          LET h == hori.urb_ctl.complete
              h0 == [hori EXCEPT !.urb_ctl = usb_complete_call(@)]
              c == IF h = "hori_poll_vr0_complete"
                   THEN hori_poll_vr0_complete(Ctx(h0), fail)
                   ELSE hori_poll_vr1_complete(Ctx(h0), fail)
          IN
          /\ hori' = [c.h EXCEPT !.urb_ctl = usb_complete_return(@)]
          /\ ev' = Ev(h, c, h0.urb_ctl.status, h0.urb_ctl.actual_length)
          /\ chain' = IF c.issued = <<>> THEN [chain EXCEPT !.halted = TRUE]
                      ELSE chain
          /\ hist' = Raced(c)
    /\ pc' = pc

\* ------------------------------------------------------------------ lifecycle

\* an entry point takes pm_mutex
Lock(op) ==
    /\ pc[op] = "idle"
    /\ mutex_lock_ready(hori)
    /\ hori' = [hori EXCEPT !.pm_mutex = op]
    /\ pc' = [pc EXCEPT ![op] = "body"]
    /\ ev' = Ev(op, Ctx(hori), 0, 0)
    /\ hist' = [hist EXCEPT !.raced = FALSE, !.torn = @ /\ op # "open"]
    /\ chain' = chain

Open ==
    /\ pc["open"] = "body"
    /\ \E failI \in BOOLEAN, failC \in BOOLEAN :
          LET c == hori_open(Ctx(hori), failI, failC) IN
          /\ hori' = c.h
          /\ ev' = Ev("hori_open", c, 0, 0)
          /\ chain' = ChainAfter(c)
    /\ pc' = [pc EXCEPT !["open"] = "idle"]
    /\ hist' = Returned("open")

\* usb_kill_urb(hori->urb) starts, in close, suspend (when is_open) and pre_reset
KillIrq(op) ==
    /\ op \in {"close", "suspend", "reset"}
    /\ pc[op] = "body"
    /\ op = "suspend" => hori.is_open
    /\ hori' = [hori EXCEPT !.urb = usb_kill_urb_begin(@)]
    /\ pc' = [pc EXCEPT ![op] = "kill_irq"]
    /\ Quiet(op)

\* usb_kill_urb(hori->urb) returns and usb_kill_urb(hori->urb_ctl) starts
KillCtl(op) ==
    /\ pc[op] = "kill_irq"
    /\ usb_kill_urb_done(hori.urb)
    /\ hori' = [hori EXCEPT !.urb = usb_kill_urb_end(@),
                            !.urb_ctl = usb_kill_urb_begin(@)]
    /\ pc' = [pc EXCEPT ![op] = "kill_ctl"]
    /\ Quiet(op)

\* usb_kill_urb(hori->urb_ctl) returns and hori_close finishes
Close ==
    /\ pc["close"] = "kill_ctl"
    /\ usb_kill_urb_done(hori.urb_ctl)
    /\ LET c == hori_close(Ctx([hori EXCEPT !.urb_ctl = usb_kill_urb_end(@)])) IN
          /\ hori' = c.h
          /\ ev' = Ev("hori_close", c, 0, 0)
    /\ pc' = [pc EXCEPT !["close"] = "idle"]
    /\ hist' = Returned("close")
    /\ chain' = chain

\* hori_suspend returns, after the kills when is_open, at once otherwise
Suspend ==
    /\ \/ pc["suspend"] = "kill_ctl" /\ usb_kill_urb_done(hori.urb_ctl)
       \/ pc["suspend"] = "body" /\ ~hori.is_open
    /\ LET h == IF pc["suspend"] = "kill_ctl"
                THEN [hori EXCEPT !.urb_ctl = usb_kill_urb_end(@)] ELSE hori
           c == hori_suspend(Ctx(h))
       IN /\ hori' = c.h
          /\ ev' = Ev("hori_suspend", c, 0, 0)
    /\ pc' = [pc EXCEPT !["suspend"] = "idle"]
    /\ hist' = Returned("suspend")
    /\ chain' = chain

Resume ==
    /\ pc["resume"] = "body"
    /\ \E failI \in BOOLEAN, failC \in BOOLEAN :
          LET c == hori_resume(Ctx(hori), failI, failC) IN
          /\ hori' = c.h
          /\ ev' = Ev("hori_resume", c, 0, 0)
          /\ chain' = ChainAfter(c)
    /\ pc' = [pc EXCEPT !["resume"] = "idle"]
    /\ hist' = Returned("resume")

\* hori_pre_reset returns 0 with pm_mutex still held
PreReset ==
    /\ pc["reset"] = "kill_ctl"
    /\ usb_kill_urb_done(hori.urb_ctl)
    /\ hori' = [hori EXCEPT !.urb_ctl = usb_kill_urb_end(@)]
    /\ ev' = Ev("hori_pre_reset", [Ctx(hori) EXCEPT !.ret = <<0>>], 0, 0)
    /\ pc' = [pc EXCEPT !["reset"] = "window"]
    /\ hist' = Returned("pre_reset")
    /\ chain' = chain

\* the USB core calls hori_post_reset after the reset that hori_pre_reset announced
PostReset ==
    /\ pc["reset"] = "window"
    /\ \E failI \in BOOLEAN, failC \in BOOLEAN :
          LET c == hori_post_reset(Ctx(hori), failI, failC) IN
          /\ hori' = c.h
          /\ ev' = Ev("hori_post_reset", c, 0, 0)
          /\ chain' = ChainAfter(c)
    /\ pc' = [pc EXCEPT !["reset"] = "idle"]
    /\ hist' = Returned("post_reset")

Next ==
    \/ IrqGiveback
    \/ IrqCallback
    \/ CtlGiveback
    \/ CtlCallback
    \/ \E op \in Ops : Lock(op)
    \/ Open
    \/ \E op \in Ops : KillIrq(op)
    \/ \E op \in Ops : KillCtl(op)
    \/ Close
    \/ Suspend
    \/ Resume
    \/ PreReset
    \/ PostReset

Spec == Init /\ [][Next]_vars

\* ------------------------------------------------------------------ self-sustaining legs

\* The session left to itself after one successful open: no other lifecycle
\* operation runs, every submission is accepted, and every transfer completes
\* with a status after which its handler goes on (any status but -ETIME and the
\* terminated ones; for the interrupt read -EPIPE is a terminated one).

Accepted(results) == \A i \in DOMAIN results : results[i] = 0

IrqLiveStatuses == Statuses \ {-ETIME, -ECONNRESET, -ENOENT, -ESHUTDOWN, -EPIPE}

CtlLiveStatuses == Statuses \ {-ETIME, -ECONNRESET, -ENOENT, -ESHUTDOWN}

LiveLock == ~hori.is_open /\ Lock("open")

\* an open that fails leaves the session closed and is tried again; the open
\* that succeeds has both its submissions accepted
LiveOpen == Open /\ (hori'.is_open => Accepted(ev'.isub) /\ Accepted(ev'.cres))

\* the reports the stick sends while the session is left to itself
LiveReports == {[i \in 1..REPORT_LEN |-> 0], <<10, 20, 30, 40, 50, 60, 255, 0>>}

\* the interrupt read completes; a complete report is in the buffer when it
\* completes with status 0 and the full length
LiveIrqGiveback ==
    /\ hori.urb.linked > 0
    /\ ~hori.urb.cb
    /\ \E st \in IrqLiveStatuses, len \in Lengths, d \in LiveReports :
          hori' = [hori EXCEPT !.urb = usb_hcd_giveback_urb(@, st, len),
                               !.data = IF st = 0 /\ len = REPORT_LEN THEN d ELSE @]
    /\ pc' = pc
    /\ Quiet("irq_giveback")

LiveIrqCallback == IrqCallback /\ Accepted(ev'.isub)

LiveCtlGiveback == CtlGiveback /\ hori'.urb_ctl.given[1] \in CtlLiveStatuses

LiveCtlCallback == CtlCallback /\ Accepted(ev'.cres)

NextLive ==
    \/ LiveLock
    \/ LiveOpen
    \/ LiveIrqGiveback
    \/ LiveIrqCallback
    \/ LiveCtlGiveback
    \/ LiveCtlCallback

\* the host controller completes every transfer it was given, and a giveback
\* runs the completion handler
Fairness ==
    /\ WF_vars(LiveIrqGiveback)
    /\ WF_vars(LiveIrqCallback)
    /\ WF_vars(LiveCtlGiveback)
    /\ WF_vars(LiveCtlCallback)

SpecLive == Init /\ [][NextLive]_vars /\ Fairness

\* ------------------------------------------------------------------ payloads

\* In Spec the three report buffers keep the content hori_probe gave them. The
\* decoding of a report is examined here: the session is open, one transfer
\* has just been given back with its payload in the buffer, and the completion
\* handlers run on it.

\* the interrupt reports examined: three values of each axis byte, and button
\* bytes on both sides of the threshold
AxisBytes(i) == {0, 10 * i, 255}

ButtonBytes == {0, BTN_THRESHOLD - 1, BTN_THRESHOLD, 255}

IrqPayloads ==
    {<<x, y, rudder, rx, ry, throttle, a, b>> :
        x \in AxisBytes(1), y \in AxisBytes(2), rudder \in AxisBytes(3),
        rx \in AxisBytes(4), ry \in AxisBytes(5), throttle \in AxisBytes(6),
        a \in ButtonBytes, b \in ButtonBytes}

\* the Poll-A reports examined: every value of the ten flags, the reserved
\* bits all 0 or all 1
Vr0Payloads ==
    {<<b1, b2 + r>> : b1 \in 0..255, b2 \in {0, 32, 64, 96}, r \in {0, 159}}

\* the Poll-B reports examined: every value of the eight flags and of
\* mode_select, the reserved bits all 0 or all 1
Vr1Payloads ==
    {<<b1 + r1, b2 + r2>> : b1 \in {16 * k : k \in 0..7}, r1 \in {0, 143},
                            b2 \in {m + 8 * k : m \in 0..3, k \in 0..31}, r2 \in {0, 4}}

\* the session after a successful open
Opened == hori_open(Ctx([Probed EXCEPT !.pm_mutex = "open"]), FALSE, FALSE).h

\* the session after the first Poll-A completed and Poll-B was submitted
OpenedAtVr1 ==
    LET h0 == [Opened EXCEPT !.urb_ctl = usb_complete_call(usb_hcd_giveback_urb(@, 0, 2))]
        c == hori_poll_vr0_complete(Ctx(h0), FALSE)
    IN [c.h EXCEPT !.urb_ctl = usb_complete_return(@)]

\* a payload of a transfer that did not succeed is whatever the buffer held
StalePayload(st, all, some) == IF st = 0 THEN all ELSE some

InitDecode ==
    /\ \/ \E st \in Statuses, len \in Lengths :
             \E d \in StalePayload(IF len = REPORT_LEN THEN st ELSE 1, IrqPayloads,
                                    {[i \in 1..REPORT_LEN |-> 0], [i \in 1..REPORT_LEN |-> 255]}) :
                hori = [Opened EXCEPT !.urb = usb_hcd_giveback_urb(@, st, len),
                                      !.data = d]
       \/ \E st \in Statuses :
             \E raw \in StalePayload(st, Vr0Payloads, {<<0, 0>>, <<255, 255>>}) :
                hori = [Opened EXCEPT !.urb_ctl = usb_hcd_giveback_urb(@, st, 2),
                                      !.vr0 = raw]
       \/ \E st \in Statuses :
             \E raw \in StalePayload(st, Vr1Payloads, {<<0, 0>>, <<255, 255>>}) :
                hori = [OpenedAtVr1 EXCEPT !.urb_ctl = usb_hcd_giveback_urb(@, st, 2),
                                           !.vr1 = raw]
    /\ pc = [o \in Ops |-> "idle"]
    /\ ev = [ProbedEv EXCEPT !.op = "giveback", !.ret = <<>>, !.was_open = TRUE]
    /\ chain = [clean |-> TRUE, halted |-> FALSE]
    /\ hist = [suspended |-> FALSE, torn |-> FALSE, raced |-> FALSE]

NextDecode ==
    \/ IrqCallback
    \/ CtlCallback

SpecDecode == InitDecode /\ [][NextDecode]_vars

\* ------------------------------------------------------------------ claims

\* the status classes of the specification, as the switch of the control
\* completion handlers separates them
Classify(st) ==
    IF st = 0 THEN "SUCCESS"
    ELSE IF st = -ETIME THEN "TRANSIENT_TIMEOUT"
    ELSE IF st = -EPIPE THEN "PROTOCOL_STALL"
    ELSE IF st \in {-ECONNRESET, -ENOENT, -ESHUTDOWN} THEN "TERMINATED"
    ELSE "UNEXPECTED"

CtlHandlers == {"hori_poll_vr0_complete", "hori_poll_vr1_complete"}

StartOps == {"hori_open", "hori_resume", "hori_post_reset"}

Other(req) == IF req = HORI_POLL_VR0 THEN HORI_POLL_VR1 ELSE HORI_POLL_VR0

\* C1: a poll chain that a lifecycle operation started on a quiescent control
\* transfer starts with request A; every completion classified SUCCESS,
\* PROTOCOL_STALL or UNEXPECTED issues exactly the request other than the one
\* issued last (A,B,A,B,...); a completion classified TRANSIENT_TIMEOUT or
\* TERMINATED issues none, and once the chain has halted no request is issued
\* and no control transfer is in flight until a lifecycle operation starts it.
C1_ChainAlternates ==
    /\ (ev.op \in StartOps /\ ev.issued # <<>>) => ev.issued = <<HORI_POLL_VR0>>
    /\ (chain.clean /\ ev.op \in CtlHandlers) =>
          IF Classify(ev.st) \in {"SUCCESS", "PROTOCOL_STALL", "UNEXPECTED"}
          THEN ev.issued = <<Other(ev.req)>> /\ ~chain.halted
          ELSE ev.issued = <<>> /\ chain.halted
    /\ (chain.clean /\ chain.halted) => Quiescent(hori.urb_ctl)
    /\ (ev.halted /\ ev.issued # <<>>) => ev.op \in StartOps
    /\ ev.issued # <<>> => ev.op \in StartOps \cup CtlHandlers

\* request B completed with a stall and the chain went on to request A
C1_Witness ==
    /\ chain.clean
    /\ ev.op = "hori_poll_vr1_complete"
    /\ ev.st = -EPIPE
    /\ ev.req = HORI_POLL_VR1
    /\ ev.issued = <<HORI_POLL_VR0>>
    /\ ev.cres = <<0>>

Idle(u) == Quiescent(u) /\ u.use_count = 0

\* C3: when close returns, and when suspend returns on an Is-Open session,
\* neither transfer is in flight and no completion handler is running.
C3_CancelLeavesNothing ==
    (ev.op = "hori_close" \/ (ev.op = "hori_suspend" /\ ev.was_open)) =>
        Idle(hori.urb) /\ Idle(hori.urb_ctl)

\* close returned after a completion handler had its resubmission refused by
\* the cancellation
C3_Witness ==
    /\ ev.op = "hori_close"
    /\ hist.raced
    /\ ev.was_open

\* C4 as stated: the interrupt handler resubmits exactly on SUCCESS,
\* PROTOCOL_STALL and UNEXPECTED, so a stall leaves the stream armed.
C4_StallResubmits ==
    ev.op = "hori_usb_irq" =>
        /\ (Classify(ev.st) \in {"SUCCESS", "PROTOCOL_STALL", "UNEXPECTED"}) <=> (ev.isub # <<>>)
        /\ (Classify(ev.st) = "PROTOCOL_STALL" /\ ev.isub = <<0>>) => hori.urb.linked = 1
        /\ Classify(ev.st) = "PROTOCOL_STALL" => ev.isub # <<>>

\* C4: on every interrupt completion the handler resubmits the read exactly
\* when the status is SUCCESS or UNEXPECTED (whatever the payload length); on
\* TRANSIENT_TIMEOUT, TERMINATED and PROTOCOL_STALL (-EPIPE) it returns without
\* resubmitting; an accepted resubmission leaves the read in flight.
C4_ResubmitPolicy ==
    ev.op = "hori_usb_irq" =>
        IF Classify(ev.st) \in {"SUCCESS", "UNEXPECTED"}
        THEN /\ Len(ev.isub) = 1
             /\ ev.isub = <<0>> => hori.urb.linked = 1
        ELSE ev.isub = <<>>

\* a stalled interrupt read was not resubmitted
C4_Witness ==
    /\ ev.op = "hori_usb_irq"
    /\ ev.st = -EPIPE
    /\ ev.isub = <<>>
    /\ hori.urb.linked = 0
    /\ hori.is_open

\* C5: from the return of close to the start of the next open no completion
\* handler runs, nothing is published and no transfer is submitted or in flight.
C5_TornDownIsQuiet ==
    hist.torn =>
        /\ Idle(hori.urb) /\ Idle(hori.urb_ctl)
        /\ ev.op \notin CtlHandlers \cup {"hori_usb_irq", "irq_giveback", "ctl_giveback"}
        /\ ev.pub = <<>> /\ ev.flush = 0
        /\ ev.isub = <<>> /\ ev.issued = <<>>

\* a resume ran on the session that close had torn down and submitted nothing
C5_Witness ==
    /\ hist.torn
    /\ ev.op = "hori_resume"
    /\ ~ev.was_open
    /\ ev.ret = <<0>>

Running == {o \in Ops : pc[o] # "idle"}

\* C6: at most one lifecycle operation is past its lock at any time and it is
\* the holder of the mutex; from the return of pre_reset to post_reset the
\* mutex stays held and nothing else runs; every operation, post_reset with a
\* failed re-arm included, leaves the mutex free when it returns.
C6_LockExcludes ==
    /\ Cardinality(Running) <= 1
    /\ \A o \in Ops : pc[o] # "idle" => hori.pm_mutex = o
    /\ Running = {} => hori.pm_mutex = "free"
    /\ ev.op \in {"hori_open", "hori_close", "hori_suspend", "hori_resume",
                  "hori_post_reset"} => hori.pm_mutex = "free"
    /\ ev.op = "hori_pre_reset" => hori.pm_mutex = "reset" /\ pc["reset"] = "window"

\* post_reset failed to re-arm the interrupt read and released the mutex
C6_Witness ==
    /\ ev.op = "hori_post_reset"
    /\ ev.ret = <<-EIO>>
    /\ hori.pm_mutex = "free"

ResumedAfterSuspend ==
    /\ ev.op = "hori_resume"
    /\ ev.after_suspend
    /\ ev.was_open
    /\ ev.ret = <<0>>

\* C7 as stated: suspend followed by a successful resume of an Is-Open session
\* leaves the interrupt transfer in flight and the PHASE_A request outstanding.
C7_ResumeLeavesAOutstanding ==
    ResumedAfterSuspend =>
        /\ hori.urb.linked = 1
        /\ hori.urb_ctl.linked = 1
        /\ hori.urb_ctl.submitted = HORI_POLL_VR0
        /\ hori.bRequest = HORI_POLL_VR0

\* C7: suspend followed by a successful resume of an Is-Open session leaves
\* the interrupt transfer in flight and issues exactly one control request,
\* PHASE_A and never PHASE_B, whatever request was written last before the
\* suspend; that request is outstanding when its submission was accepted, and
\* no control transfer is in flight when it was refused.
C7_ResumeRestartsAtA ==
    ResumedAfterSuspend =>
        /\ ev.isub = <<0>> /\ hori.urb.linked = 1
        /\ ev.issued = <<HORI_POLL_VR0>>
        /\ hori.bRequest = HORI_POLL_VR0
        /\ hori.urb_ctl.complete = "hori_poll_vr0_complete"
        /\ Len(ev.cres) = 1
        /\ ev.cres = <<0>> => hori.urb_ctl.linked = 1 /\ hori.urb_ctl.submitted = HORI_POLL_VR0
        /\ ev.cres # <<0>> => hori.urb_ctl.linked = 0

\* the chain was at request B when suspend cancelled it and resume restarted it at A
C7_Witness ==
    /\ ResumedAfterSuspend
    /\ ev.req = HORI_POLL_VR1
    /\ ev.cres = <<0>>
    /\ hori.urb_ctl.submitted = HORI_POLL_VR0

\* C8 as stated: an open of a session that is already Is-Open leaves Is-Open,
\* the interrupt transfer, the control transfer and the request code as they were.
C8_SecondOpenChangesNothing ==
    [][(pc["open"] = "body" /\ pc'["open"] = "idle" /\ hori.is_open) =>
          /\ hori'.is_open = hori.is_open
          /\ hori'.urb = hori.urb
          /\ hori'.urb_ctl = hori.urb_ctl
          /\ hori'.bRequest = hori.bRequest]_vars

\* C9: when open cannot submit the interrupt read it returns -EIO, leaves
\* Is-Open as it was and issues no control request; when the interrupt read is
\* accepted and the submission of the first poll fails, open returns 0 with
\* Is-Open true and the interrupt transfer in flight.
C9_OpenErrors ==
    ev.op = "hori_open" =>
        /\ Len(ev.isub) = 1
        /\ ev.isub # <<0>> =>
              /\ ev.ret = <<-EIO>>
              /\ hori.is_open = ev.was_open
              /\ ev.issued = <<>>
        /\ ev.isub = <<0>> =>
              /\ ev.ret = <<0>>
              /\ hori.is_open
              /\ hori.urb.linked = 1
              /\ ev.issued = <<HORI_POLL_VR0>>

\* open returned 0 although the first poll was refused
C9_Witness ==
    /\ ev.op = "hori_open"
    /\ ~ev.was_open
    /\ ev.isub = <<0>>
    /\ ev.cres = <<-ENOMEM>>
    /\ ev.ret = <<0>>
    /\ hori.is_open
    /\ hori.urb.linked = 1
    /\ hori.urb_ctl.linked = 0

\* C10 as stated: on an Is-Open session resume and post_reset both submit the
\* interrupt read, return -EIO when that fails and issue request A whether or
\* not it failed; on a session that is not Is-Open both submit nothing and
\* return 0.
C10_ResumeLikePostReset ==
    ev.op \in {"hori_resume", "hori_post_reset"} =>
        IF ev.was_open
        THEN /\ Len(ev.isub) = 1
             /\ ev.ret = <<IF ev.isub[1] < 0 THEN -EIO ELSE 0>>
             /\ ev.issued = <<HORI_POLL_VR0>>
        ELSE /\ ev.isub = <<>>
             /\ ev.issued = <<>>
             /\ ev.ret = <<0>>

CompletionHandlers == CtlHandlers \cup {"hori_usb_irq"}

\* C11 as stated: every submission a completion handler makes (the interrupt
\* resubmission and both advances of the poll chain) is made with GFP_ATOMIC,
\* and GFP_KERNEL is used only by open, resume and post_reset.
C11_HandlersSubmitAtomic ==
    /\ ev.op \in CompletionHandlers => \A g \in ev.gfp : g[2] = GFP_ATOMIC
    /\ ev.op \in StartOps => \A g \in ev.gfp : g[2] = GFP_KERNEL

\* the axis codes of the interrupt report, in the order of its bytes
IrqAxes == <<"ABS_X", "ABS_Y", "ABS_RUDDER", "ABS_RX", "ABS_RY", "ABS_THROTTLE">>

Pressed(b) == IF b THEN 1 ELSE 0

\* C12: an interrupt completion with status 0 and 8 bytes publishes exactly
\* six axis events carrying bytes 0..5 unchanged, then button A = (byte 6 <
\* 0xC0) and button B = (byte 7 < 0xC0), then one flush, and nothing else.
C12_IrqFrame ==
    (ev.op = "hori_usb_irq" /\ ev.st = 0 /\ ev.len = 8) =>
        /\ Len(ev.events) = 9
        /\ \A i \in 1..6 : ev.events[i] = <<"EV_ABS", IrqAxes[i], hori.data[i]>>
        /\ ev.events[7] = <<"EV_KEY", "BTN_A", Pressed(hori.data[7] < 192)>>
        /\ ev.events[8] = <<"EV_KEY", "BTN_B", Pressed(hori.data[8] < 192)>>
        /\ ev.events[9] = <<"EV_SYN">>
        /\ ev.flush = 1

\* the scenario of the specification: [10,20,30,40,50,60,0xFF,0x00]
C12_Witness ==
    /\ ev.op = "hori_usb_irq" /\ ev.st = 0 /\ ev.len = 8
    /\ hori.data = <<10, 20, 30, 40, 50, 60, 255, 0>>
    /\ ev.events = << <<"EV_ABS", "ABS_X", 10>>, <<"EV_ABS", "ABS_Y", 20>>,
                      <<"EV_ABS", "ABS_RUDDER", 30>>, <<"EV_ABS", "ABS_RX", 40>>,
                      <<"EV_ABS", "ABS_RY", 50>>, <<"EV_ABS", "ABS_THROTTLE", 60>>,
                      <<"EV_KEY", "BTN_A", 0>>, <<"EV_KEY", "BTN_B", 1>>,
                      <<"EV_SYN">> >>
    /\ ev.flush = 1

\* C13: an interrupt completion with status 0 and a length other than 8
\* publishes no event and no flush, and the handler still calls
\* usb_submit_urb on the interrupt URB once.
C13_ShortFrameIsNoOp ==
    (ev.op = "hori_usb_irq" /\ ev.st = 0 /\ ev.len # 8) =>
        /\ ev.events = <<>>
        /\ ev.pub = <<>>
        /\ ev.flush = 0
        /\ Len(ev.isub) = 1
        /\ ev.isub = <<0>> => hori.urb.linked = 1

C13_Witness ==
    /\ ev.op = "hori_usb_irq" /\ ev.st = 0 /\ ev.len = REPORT_LEN - 1
    /\ ev.events = <<>>
    /\ ev.isub = <<0>>
    /\ hori.urb.linked = 1

\* the event codes of one frame, "SYN" for the flush
Codes(events) == [i \in DOMAIN events |-> IF Len(events[i]) > 1 THEN events[i][2] ELSE "SYN"]

\* the fields of the two poll reports in the order they are published
Vr0Codes ==
    <<"BTN_TRIGGER_HAPPY1", "BTN_TRIGGER_HAPPY2", "BTN_TRIGGER_HAPPY3", "BTN_TRIGGER_HAPPY4",
      "BTN_TRIGGER_HAPPY5", "BTN_TRIGGER_HAPPY6", "BTN_TRIGGER_HAPPY7", "BTN_TRIGGER_HAPPY8",
      "BTN_THUMB", "BTN_TRIGGER">>

Vr1Codes == <<"BTN_THUMB2", "BTN_C", "BTN_X", "BTN_Y", "ABS_Z", "ABS_RZ">>

\* C14: a control completion publishes only when its status is 0, and then
\* every field of its report once, followed by exactly one flush; with any
\* other status it publishes no event and no flush; no frame carries an event
\* for mode_select.
C14_CtlPublishesOnSuccess ==
    ev.op \in CtlHandlers =>
        /\ ev.st = 0 =>
              /\ Codes(ev.events) = (IF ev.op = "hori_poll_vr0_complete"
                                     THEN Vr0Codes ELSE Vr1Codes) \o <<"SYN">>
              /\ ev.flush = 1
        /\ ev.st # 0 => ev.events = <<>> /\ ev.flush = 0
        /\ Classify(ev.st) \in {"PROTOCOL_STALL", "UNEXPECTED", "TRANSIENT_TIMEOUT", "TERMINATED"}
              => ev.events = <<>> /\ ev.flush = 0

\* a successful Poll-B report with mode_select = 2 is published without it
C14_Witness ==
    /\ ev.op = "hori_poll_vr1_complete" /\ ev.st = 0
    /\ Vr1ModeSelect(hori) = 2
    /\ Len(ev.events) = 7
    /\ ev.flush = 1

\* the flags published as keys, in the order of their events
Vr0Flags ==
    <<"fire_c", "button_d", "hat", "button_st", "dpad1_top", "dpad1_right",
      "dpad1_bottom", "dpad1_left", "launch", "trigger">>

Vr1Flags == <<"dpad3_right", "dpad3_middle", "dpad3_left", "button_sw1">>

\* C15: every flag of Poll-A and Poll-B published as a key is reported
\* pressed exactly when its raw bit is 0; a successful Poll-A report with all
\* raw bits 1 reports no key pressed, and the handler then issues request B.
C15_ActiveLow ==
    /\ (ev.op = "hori_poll_vr0_complete" /\ ev.st = 0) =>
          /\ \A i \in 1..10 : ev.events[i][3] = 1 - Vr0(hori, Vr0Flags[i])
          /\ hori.vr0 = <<255, 255>> => \A i \in 1..10 : ev.events[i][3] = 0
          /\ ev.issued = <<HORI_POLL_VR1>>
    /\ (ev.op = "hori_poll_vr1_complete" /\ ev.st = 0) =>
          /\ \A i \in 1..4 : ev.events[i][3] = 1 - Vr1(hori, Vr1Flags[i])
          /\ ev.events[5][3] = 1 <=> Vr1(hori, "dpad2_left") = 1 /\ Vr1(hori, "dpad2_right") = 1
          /\ ev.events[6][3] = 1 <=> Vr1(hori, "dpad2_top") = 1 /\ Vr1(hori, "dpad2_bottom") = 1

C15_Witness ==
    /\ ev.op = "hori_poll_vr0_complete" /\ ev.st = 0
    /\ hori.vr0 = <<255, 255>>
    /\ \A i \in 1..10 : ev.events[i] = <<"EV_KEY", Vr0Codes[i], 0>>
    /\ ev.issued = <<HORI_POLL_VR1>>
    /\ hori.urb_ctl.submitted = HORI_POLL_VR1

\* an edge of the second pad is active when its raw bit is 0
Active(flag) == Vr1(hori, flag) = 0

Ternary(low, high) == IF Active(low) THEN 0 ELSE IF Active(high) THEN 2 ELSE 1

\* C16: the second pad of Poll-B is published as two axes, left/right on
\* ABS_Z and top/bottom on ABS_RZ: 0 when the low edge (left, top) is active,
\* 2 when only the high edge (right, bottom) is active, 1 otherwise; both
\* edges active gives 0; the value is always 0, 1 or 2.
C16_TernaryAxis ==
    (ev.op = "hori_poll_vr1_complete" /\ ev.st = 0) =>
        /\ ev.events[5] = <<"EV_ABS", "ABS_Z", Ternary("dpad2_left", "dpad2_right")>>
        /\ ev.events[6] = <<"EV_ABS", "ABS_RZ", Ternary("dpad2_top", "dpad2_bottom")>>
        /\ Active("dpad2_left") /\ Active("dpad2_right") => ev.events[5][3] = 0
        /\ Active("dpad2_top") /\ Active("dpad2_bottom") => ev.events[6][3] = 0
        /\ ev.events[5][3] \in {0, 1, 2} /\ ev.events[6][3] \in {0, 1, 2}

\* both edges of the left/right axis active, only the high edge of the other
C16_Witness ==
    /\ ev.op = "hori_poll_vr1_complete" /\ ev.st = 0
    /\ Active("dpad2_left") /\ Active("dpad2_right")
    /\ ~Active("dpad2_top") /\ Active("dpad2_bottom")
    /\ ev.events[5][3] = 0
    /\ ev.events[6][3] = 2

\* C17: no step of suspend or pre_reset changes is_open, so the resume or
\* post_reset that follows submits the interrupt read exactly when the
\* session was open; the only steps that change is_open are the return of
\* close, which clears it, and the return of an open that succeeded, which
\* sets it.
C17_OnlyOpenAndCloseSetIsOpen ==
    /\ hori.is_open # ev.was_open =>
          \/ ev.op = "hori_close" /\ ~hori.is_open
          \/ ev.op = "hori_open" /\ ev.ret = <<0>> /\ hori.is_open
    /\ ev.op \in {"suspend", "hori_suspend", "reset", "hori_pre_reset"} =>
          hori.is_open = ev.was_open
    /\ ev.op \in {"hori_resume", "hori_post_reset"} =>
          /\ hori.is_open = ev.was_open
          /\ ev.isub # <<>> <=> ev.was_open
    /\ ev.op = "hori_close" => ~hori.is_open
    /\ (ev.op = "hori_open" /\ ev.ret = <<0>>) => hori.is_open
    /\ (ev.op = "hori_open" /\ ev.ret # <<0>>) => hori.is_open = ev.was_open

\* suspend returned on an open session and left it open with nothing in flight
C17_Witness ==
    /\ ev.op = "hori_suspend"
    /\ ev.was_open
    /\ hori.is_open
    /\ hori.urb.linked = 0 /\ hori.urb_ctl.linked = 0

\* C20: whenever pm_mutex is free and is_open is false, neither the
\* interrupt transfer nor the control transfer is in flight and no completion
\* handler of either is pending or running.
C20_ClosedIsQuiescent ==
    (hori.pm_mutex = "free" /\ ~hori.is_open) =>
        /\ hori.urb.linked = 0 /\ hori.urb_ctl.linked = 0
        /\ Idle(hori.urb) /\ Idle(hori.urb_ctl)

\* an open whose interrupt submission failed returned on a closed session
C20_Witness ==
    /\ hori.pm_mutex = "free" /\ ~hori.is_open
    /\ ev.op = "hori_open"
    /\ ev.ret = <<-EIO>>
    /\ ev.isub = <<-ENOMEM>>
    /\ hori.urb.linked = 0 /\ hori.urb_ctl.linked = 0

\* the completion handler and the report buffer that belong to a request code
HandlerOf(req) == IF req = HORI_POLL_VR0 THEN "hori_poll_vr0_complete" ELSE "hori_poll_vr1_complete"

BufferOf(req) == IF req = HORI_POLL_VR0 THEN "vr0" ELSE "vr1"

\* C19 as stated: while a control transfer is in flight or its completion is
\* about to be handled, the shared request code, the completion handler and
\* the report buffer of the control URB are those of the request that was
\* submitted.
C19_PhaseCoherent ==
    (hori.urb_ctl.linked > 0 \/ hori.urb_ctl.cb) =>
        /\ hori.bRequest = hori.urb_ctl.submitted
        /\ hori.urb_ctl.complete = HandlerOf(hori.urb_ctl.submitted)
        /\ hori.urb_ctl.transfer_buffer = BufferOf(hori.urb_ctl.submitted)

IrqResubmitted == ev.op = "hori_usb_irq" /\ ev.isub = <<0>> /\ hori.urb.linked = 1

Advanced(handler, req) ==
    /\ ev.op = handler
    /\ ev.issued = <<req>> /\ ev.cres = <<0>>
    /\ hori.urb_ctl.linked = 1 /\ hori.urb_ctl.submitted = req

\* C18: once the session is open, with every submission accepted, every
\* transfer completing with a status its handler goes on from, no lifecycle
\* operation after the open and fair completions, the interrupt read is
\* resubmitted again and again by hori_usb_irq, request A is issued again and
\* again by hori_poll_vr1_complete and request B by hori_poll_vr0_complete.
C18_SelfSustaining ==
    /\ hori.is_open ~> IrqResubmitted
    /\ hori.is_open ~> Advanced("hori_poll_vr1_complete", HORI_POLL_VR0)
    /\ hori.is_open ~> Advanced("hori_poll_vr0_complete", HORI_POLL_VR1)
    /\ [](hori.is_open => []hori.is_open)

\* request A was issued by the completion of B after a stall, with the
\* interrupt read in flight
C18_Witness ==
    /\ hori.is_open
    /\ Advanced("hori_poll_vr1_complete", HORI_POLL_VR0)
    /\ ev.st = -EPIPE
    /\ hori.urb.linked = 1

====
